---- MODULE Spec2Model ----
(***************************************************************************)
(* Model of best_price_entry_annealing.py: the module-level price table    *)
(* and signal columns, create_bqm, solve_bqm, get_optimal_buy_prices and   *)
(* main.  Prices are integers in hundredths (8.94 is 894); the interaction *)
(* weight 1.0 is 100 in the same unit.  Python's 0-based positions are     *)
(* kept: iloc(col, i) reads the TLA+ sequence element i + 1.               *)
(***************************************************************************)
EXTENDS Integers, Sequences, FiniteSets, TLC

\* ---------------------------------------------------------------- bounds
\* longest replacement price series (the shipped one has 14 rows)
MaxN == 2
\* most rows (samples) in a solver response
MaxSamples == 2
\* most variables set to 1 in a sample of the annealer, besides the
\* all-selected sample and the ground state, which are always candidates
MaxOnes == 1

\* ------------------------------------------------------------ the dataset
ShippedDate ==
  << "2024.03.05 16:45", "2024.03.05 17:00", "2024.03.05 17:15",
     "2024.03.05 17:30", "2024.03.05 17:45", "2024.03.05 18:00",
     "2024.03.05 18:15", "2024.03.05 18:30", "2024.03.05 18:45",
     "2024.03.05 19:00", "2024.03.05 19:15", "2024.03.05 19:30",
     "2024.03.05 19:45", "2024.03.05 20:00" >>

ShippedClose ==
  << 894, 896, 855, 846, 849, 859, 853, 853, 871, 852, 847, 852, 822, 856 >>

\* prices of a replacement series ("this data can be replaced")
PriceLevels == {822, 896}

\* weight of the buy/sell conflict term, 1.0
InteractionWeight == 100

\* ------------------------------------------------------- python primitives
len(col) == Len(col)

iloc(col, i) == col[i + 1]

range(a, b) == a .. (b - 1)

Digit == << "0", "1", "2", "3", "4", "5", "6", "7", "8", "9" >>

\* str(i) of a non-negative integer: its decimal digits
RECURSIVE str(_)
str(i) == IF i < 10 THEN << Digit[i + 1] >>
          ELSE str(i \div 10) \o << Digit[(i % 10) + 1] >>

DigitVal(ch) == CHOOSE d \in 0 .. 9 : Digit[d + 1] = ch

\* int(s) of a string of decimal digits (the keys of the model always end
\* in one; Python raises ValueError on anything else)
RECURSIVE int(_)
int(s) == IF Len(s) = 0 THEN 0
          ELSE 10 * int(SubSeq(s, 1, Len(s) - 1)) + DigitVal(s[Len(s)])

\* sub in s
contains(sub, s) ==
  \E k \in 0 .. (Len(s) - Len(sub)) : SubSeq(s, k + 1, k + Len(sub)) = sub

\* s.split(c) for a one-character separator
RECURSIVE split(_, _)
split(s, c) ==
  IF \A k \in 1 .. Len(s) : s[k] # c THEN << s >>
  ELSE LET k == CHOOSE j \in 1 .. Len(s) :
                  s[j] = c /\ \A m \in 1 .. (j - 1) : s[m] # c
       IN  << SubSeq(s, 1, k - 1) >> \o split(SubSeq(s, k + 1, Len(s)), c)

BUY == << "b", "u", "y" >>

SELL == << "s", "e", "l", "l" >>

\* f'buy_{i}' and f'sell_{i}'
fstring(kind, i) == kind \o << "_" >> \o str(i)

\* ------------------------------------------------------- signal generator
\* [True if i % 2 != 0 else False for i in range(len(df))]
Buy_Signal_even(n) == [k \in 1 .. n |-> ((k - 1) % 2 = 0)]

Buy_Signal(n) == [k \in 1 .. n |-> ((k - 1) % 2 # 0)]

\* [False for _ in range(len(df))]
Sell_Signal(n) == [k \in 1 .. n |-> FALSE]

BoolColumns(n) == [1 .. n -> BOOLEAN]

\* ------------------------------------------------- binary quadratic model
\* dimod.BinaryQuadraticModel.empty(vartype='BINARY'): variables in insertion
\* order, linear biases by variable, quadratic biases by unordered pair
EmptyBQM ==
  [variables |-> << >>,
   linear    |-> [v \in {} |-> 0],
   quadratic |-> [e \in {} |-> 0]]

\* bqm.add_variable(v, bias): a new variable gets the bias, an existing one
\* has the bias added to what it holds
add_variable(b, v, bias) ==
  IF v \in DOMAIN b.linear
    THEN [b EXCEPT !.linear[v] = @ + bias]
    ELSE [b EXCEPT !.variables = Append(@, v),
                   !.linear = (v :> bias) @@ @]

\* bqm.add_interaction(u, v, bias): both variables exist afterwards, the
\* bias is added to the pair's quadratic bias
add_interaction(b, u, v, bias) ==
  LET b1 == add_variable(add_variable(b, u, 0), v, 0)
      e  == {u, v}
  IN  IF e \in DOMAIN b1.quadratic
        THEN [b1 EXCEPT !.quadratic[e] = @ + bias]
        ELSE [b1 EXCEPT !.quadratic = (e :> bias) @@ @]

\* the first loop with the buy bias not negated
RECURSIVE AddVariables_pos(_, _, _)
AddVariables_pos(b, d, i) ==
  IF i >= len(d.Close) THEN b
  ELSE LET b1 == IF iloc(d.Buy_Signal, i)
                   THEN add_variable(b, fstring(BUY, i), iloc(d.Close, i))
                   ELSE b
           b2 == IF iloc(d.Sell_Signal, i)
                   THEN add_variable(b1, fstring(SELL, i), iloc(d.Close, i))
                   ELSE b1
       IN  AddVariables_pos(b2, d, i + 1)

\* first loop of create_bqm, from position i on
RECURSIVE AddVariables(_, _, _)
AddVariables(b, d, i) ==
  IF i >= len(d.Close) THEN b
  ELSE LET b1 == IF iloc(d.Buy_Signal, i)
                   THEN add_variable(b, fstring(BUY, i), -iloc(d.Close, i))
                   ELSE b
           b2 == IF iloc(d.Sell_Signal, i)
                   THEN add_variable(b1, fstring(SELL, i), iloc(d.Close, i))
                   ELSE b1
       IN  AddVariables(b2, d, i + 1)

\* the second loop with "or" for "and"
RECURSIVE AddInteractions_or(_, _, _)
AddInteractions_or(b, d, i) ==
  IF i >= len(d.Close) THEN b
  ELSE LET b1 == IF iloc(d.Buy_Signal, i) \/ iloc(d.Sell_Signal, i)
                   THEN add_interaction(b, fstring(BUY, i), fstring(SELL, i),
                                        InteractionWeight)
                   ELSE b
       IN  AddInteractions_or(b1, d, i + 1)

\* second loop of create_bqm, from position i on
RECURSIVE AddInteractions(_, _, _)
AddInteractions(b, d, i) ==
  IF i >= len(d.Close) THEN b
  ELSE LET b1 == IF iloc(d.Buy_Signal, i) /\ iloc(d.Sell_Signal, i)
                   THEN add_interaction(b, fstring(BUY, i), fstring(SELL, i),
                                        InteractionWeight)
                   ELSE b
       IN  AddInteractions(b1, d, i + 1)

create_bqm(d) == AddInteractions(AddVariables(EmptyBQM, d, 1), d, 1)

\* ------------------------------------------------------------- the solver
Assignments(b) == [DOMAIN b.linear -> {0, 1}]

RECURSIVE SumOver(_, _)
SumOver(f, S) ==
  IF S = {} THEN 0
  ELSE LET x == CHOOSE y \in S : TRUE IN f[x] + SumOver(f, S \ {x})

\* the objective's value under assignment a
Energy(b, a) ==
  SumOver([v \in DOMAIN b.linear |-> b.linear[v] * a[v]], DOMAIN b.linear)
  + SumOver([e \in DOMAIN b.quadratic |->
               IF \A v \in e : a[v] = 1 THEN b.quadratic[e] ELSE 0],
            DOMAIN b.quadratic)

\* a row of the response: the (key, value) items of a sample, in the order
\* of the model's variables
Sample(b, a) ==
  [k \in 1 .. Len(b.variables) |->
     [key |-> b.variables[k], value |-> a[b.variables[k]]]]

GroundStates(b) ==
  {a \in Assignments(b) : \A o \in Assignments(b) : Energy(b, a) <= Energy(b, o)}

\* the assignments the annealer may return for the model: any with few
\* variables selected, the one with all selected, and the ground states
Candidates(b) ==
  {a \in Assignments(b) : Cardinality({v \in DOMAIN a : a[v] = 1}) <= MaxOnes}
  \cup {[v \in DOMAIN b.linear |-> 1]}
  \cup GroundStates(b)

SeqsUpTo(S, n) == UNION {[1 .. m -> S] : m \in 0 .. n}

\* sampler.sample(bqm, num_reads=100) on the annealer: some rows, each an
\* assignment of every variable of the model
DWaveResponses(b) == SeqsUpTo({Sample(b, a) : a \in Candidates(b)}, MaxSamples)

\* an exact solver in the sampler's place: the one minimum-energy
\* assignment, nothing for a model without variables
ExactResponse(b) ==
  IF DOMAIN b.linear = {} THEN << >>
  ELSE << Sample(b, CHOOSE a \in GroundStates(b) : TRUE) >>

\* ---------------------------------------------------------- the extractor
\* the inner loop without the test of the assigned value
RECURSIVE ItemsLoop_any(_, _, _, _)
ItemsLoop_any(prices, sample, d, k) ==
  IF k > Len(sample) THEN prices
  ELSE LET key   == sample[k].key
           next  == IF contains(BUY \o << "_" >>, key)
                      THEN Append(prices,
                                  iloc(d.Close, int(split(key, "_")[2])))
                      ELSE prices
       IN  ItemsLoop_any(next, sample, d, k + 1)

\* inner loop of get_optimal_buy_prices over sample.items(), from item k on
RECURSIVE ItemsLoop(_, _, _, _)
ItemsLoop(prices, sample, d, k) ==
  IF k > Len(sample) THEN prices
  ELSE LET key   == sample[k].key
           value == sample[k].value
           next  == IF contains(BUY \o << "_" >>, key) /\ value = 1
                      THEN Append(prices,
                                  iloc(d.Close, int(split(key, "_")[2])))
                      ELSE prices
       IN  ItemsLoop(next, sample, d, k + 1)

\* outer loop over response.data(['sample', 'energy']), from row r on
RECURSIVE DataLoop(_, _, _, _)
DataLoop(prices, resp, d, r) ==
  IF r > Len(resp) THEN prices
  ELSE DataLoop(ItemsLoop(prices, resp[r], d, 1), resp, d, r + 1)

get_optimal_buy_prices(resp, d) == DataLoop(<< >>, resp, d, 1)

\* the first element for the least
min_first(list) == list[1]

\* min(optimal_buy_prices) of a non-empty list
min(list) ==
  CHOOSE p \in {list[k] : k \in 1 .. Len(list)} :
    \A k \in 1 .. Len(list) : p <= list[k]

\* ------------------------------------------------------------- the export
\* trading_signals.csv as an earlier run or another program left it
StaleFile == [exists |-> TRUE, header |-> << "stale" >>, rows |-> << >>]

\* the export without the row of position 0
to_csv_skip(d) ==
  [exists |-> TRUE,
   header |-> << "Date", "Close", "Buy_Signal", "Sell_Signal" >>,
   rows   |-> [k \in 1 .. (len(d.Close) - 1) |->
                 [Date        |-> d.Date[k + 1],
                  Close       |-> d.Close[k + 1],
                  Buy_Signal  |-> d.Buy_Signal[k + 1],
                  Sell_Signal |-> d.Sell_Signal[k + 1]]]]

\* df.to_csv("trading_signals.csv", index=False): the column names, then
\* one row per row of the frame
to_csv(d) ==
  [exists |-> TRUE,
   header |-> << "Date", "Close", "Buy_Signal", "Sell_Signal" >>,
   rows   |-> [k \in 1 .. len(d.Close) |->
                 [Date        |-> d.Date[k],
                  Close       |-> d.Close[k],
                  Buy_Signal  |-> d.Buy_Signal[k],
                  Sell_Signal |-> d.Sell_Signal[k]]]]

ValueError == "ValueError: min() arg is an empty sequence"

SolverError == "SolverError"

\* ------------------------------------------------------------------ state
VARIABLES
  pc,                  \* position of the run
  rule,                \* signal rule in use: "default" or "custom"
  solver,              \* sampler behind solve_bqm: "dwave" or "exact"
  df,                  \* the module-level frame
  signals,             \* what the signal generator put out
  bqm,                 \* main's bqm
  response,            \* main's response
  optimal_buy_prices,  \* main's optimal_buy_prices
  best_entry_price,    \* main's best_entry_price, 0 before it is assigned
  stdout,              \* lines printed so far
  file,                \* trading_signals.csv
  file_at_start,       \* trading_signals.csv when the run began
  csv_writes,          \* calls of df.to_csv so far
  solver_calls,        \* calls of solve_bqm so far
  error                \* exception that ended the run, "none" if none

vars == << pc, rule, solver, df, signals, bqm, response, optimal_buy_prices,
           best_entry_price, stdout, file, file_at_start, csv_writes,
           solver_calls, error >>

N == len(df.Close)

\* the price tables a run may start from: the shipped one, or a replacement
CloseSeries ==
  {ShippedClose} \cup UNION {[1 .. n -> PriceLevels] : n \in 1 .. MaxN}

Init ==
  /\ pc = "signals"
  /\ \E close \in CloseSeries :
       df = [Date        |-> SubSeq(ShippedDate, 1, Len(close)),
             Close       |-> close,
             Buy_Signal  |-> << >>,
             Sell_Signal |-> << >>]
  /\ rule \in IF len(df.Close) <= MaxN THEN {"default", "custom"}
                                       ELSE {"default"}
  /\ solver \in {"dwave", "exact"}
  /\ signals = [buy |-> << >>, sell |-> << >>]
  /\ bqm = EmptyBQM
  /\ response = << >>
  /\ optimal_buy_prices = << >>
  /\ best_entry_price = 0
  /\ stdout = << >>
  /\ file = StaleFile
  /\ file_at_start = file
  /\ csv_writes = 0
  /\ solver_calls = 0
  /\ error = "none"

\* lines 24-25 with the shipped rule
DefaultSignals ==
  /\ pc = "signals"
  /\ rule = "default"
  /\ signals' = [buy |-> Buy_Signal(N), sell |-> Sell_Signal(N)]
  /\ df' = [df EXCEPT !.Buy_Signal = signals'.buy,
                      !.Sell_Signal = signals'.sell]
  /\ pc' = "main"
  /\ UNCHANGED << rule, solver, bqm, response, optimal_buy_prices,
                  best_entry_price, stdout, file, file_at_start, csv_writes,
                  solver_calls, error >>

\* lines 24-25 with another rule plugged in: any two boolean columns
CustomSignals ==
  /\ pc = "signals"
  /\ rule = "custom"
  /\ \E b \in BoolColumns(N), s \in BoolColumns(N) :
       signals' = [buy |-> b, sell |-> s]
  /\ df' = [df EXCEPT !.Buy_Signal = signals'.buy,
                      !.Sell_Signal = signals'.sell]
  /\ pc' = "main"
  /\ UNCHANGED << rule, solver, bqm, response, optimal_buy_prices,
                  best_entry_price, stdout, file, file_at_start, csv_writes,
                  solver_calls, error >>

\* main, step 1
CreateBqm ==
  /\ pc = "main"
  /\ bqm' = create_bqm(df)
  /\ pc' = "built"
  /\ UNCHANGED << rule, solver, df, signals, response, optimal_buy_prices,
                  best_entry_price, stdout, file, file_at_start, csv_writes,
                  solver_calls, error >>

\* main, step 2: the annealer answers
SolveDWave ==
  /\ pc = "built"
  /\ solver = "dwave"
  /\ solver_calls' = solver_calls + 1
  /\ response' \in DWaveResponses(bqm)
  /\ pc' = "solved"
  /\ UNCHANGED << rule, solver, df, signals, bqm, optimal_buy_prices,
                  best_entry_price, stdout, file, file_at_start, csv_writes,
                  error >>

\* the failure caught and logged, the run going on with no solutions
SolveFails_logged ==
  /\ pc = "built"
  /\ solver = "dwave"
  /\ solver_calls' = solver_calls + 1
  /\ error' = SolverError
  /\ response' = << >>
  /\ pc' = "solved"
  /\ UNCHANGED << rule, solver, df, signals, bqm, optimal_buy_prices,
                  best_entry_price, stdout, file, file_at_start, csv_writes >>

\* main, step 2: the call raises (authentication, connectivity, quota, a
\* model the service rejects); nothing in solve_bqm or main catches it
SolveFails ==
  /\ pc = "built"
  /\ solver = "dwave"
  /\ solver_calls' = solver_calls + 1
  /\ error' = SolverError
  /\ pc' = "failed"
  /\ UNCHANGED << rule, solver, df, signals, bqm, response,
                  optimal_buy_prices, best_entry_price, stdout, file,
                  file_at_start, csv_writes >>

\* main, step 2, with an exact solver in the sampler's place
SolveExact ==
  /\ pc = "built"
  /\ solver = "exact"
  /\ solver_calls' = solver_calls + 1
  /\ response' = ExactResponse(bqm)
  /\ pc' = "solved"
  /\ UNCHANGED << rule, solver, df, signals, bqm, optimal_buy_prices,
                  best_entry_price, stdout, file, file_at_start, csv_writes,
                  error >>

\* main, step 3 and the first print of step 4
Extract ==
  /\ pc = "solved"
  /\ optimal_buy_prices' = get_optimal_buy_prices(response, df)
  /\ stdout' = Append(stdout, << "Optimal Buy Prices", optimal_buy_prices' >>)
  /\ pc' = "extracted"
  /\ UNCHANGED << rule, solver, df, signals, bqm, response, best_entry_price,
                  file, file_at_start, csv_writes, solver_calls, error >>

\* main, step 4: min of a non-empty list, and its print
BestEntry ==
  /\ pc = "extracted"
  /\ optimal_buy_prices # << >>
  /\ best_entry_price' = min(optimal_buy_prices)
  /\ stdout' = Append(stdout, << "The optimal entry price to buy is",
                                 << best_entry_price' >> >>)
  /\ pc' = "reported"
  /\ UNCHANGED << rule, solver, df, signals, bqm, response,
                  optimal_buy_prices, file, file_at_start, csv_writes,
                  solver_calls, error >>

\* main, step 4: min of an empty list raises ValueError, which main does
\* not catch
BestEntryEmpty ==
  /\ pc = "extracted"
  /\ optimal_buy_prices = << >>
  /\ error' = ValueError
  /\ pc' = "failed"
  /\ UNCHANGED << rule, solver, df, signals, bqm, response,
                  optimal_buy_prices, best_entry_price, stdout, file,
                  file_at_start, csv_writes, solver_calls >>

\* the export moved ahead of the minimum
Export_early ==
  /\ pc = "extracted"
  /\ file' = to_csv(df)
  /\ csv_writes' = csv_writes + 1
  /\ stdout' = Append(stdout, << "Trading signals saved", << >> >>)
  /\ pc' = "done"
  /\ UNCHANGED << rule, solver, df, signals, bqm, response,
                  optimal_buy_prices, best_entry_price, file_at_start,
                  solver_calls, error >>

\* main, the export and the last print
Export ==
  /\ pc = "reported"
  /\ file' = to_csv(df)
  /\ csv_writes' = csv_writes + 1
  /\ stdout' = Append(stdout, << "Trading signals saved", << >> >>)
  /\ pc' = "done"
  /\ UNCHANGED << rule, solver, df, signals, bqm, response,
                  optimal_buy_prices, best_entry_price, file_at_start,
                  solver_calls, error >>

Next ==
  \/ DefaultSignals
  \/ CustomSignals
  \/ CreateBqm
  \/ SolveDWave
  \/ SolveFails
  \/ SolveExact
  \/ Extract
  \/ BestEntry
  \/ BestEntryEmpty
  \/ Export

Spec == Init /\ [][Next]_vars

TypeOK ==
  /\ pc \in {"signals", "main", "built", "solved", "extracted", "reported",
             "done", "failed"}
  /\ csv_writes \in 0 .. 1
  /\ solver_calls \in 0 .. 1

\* ----------------------------------------------------------- properties
\* create_bqm has just returned main's bqm
Returned == pc = "built"

\* the model was built at some point of the run
Built == pc \notin {"signals", "main"}

\* get_optimal_buy_prices has just returned main's optimal_buy_prices
Extracted == pc = "extracted"

OddPositions == {i \in 1 .. (N - 1) : i % 2 = 1}

\* the (kind, position) pairs the signals make eligible, position 0 left out
EligiblePairs ==
  {<< BUY, i >> : i \in {j \in 1 .. (N - 1) : signals.buy[j + 1]}}
  \cup {<< SELL, i >> : i \in {j \in 1 .. (N - 1) : signals.sell[j + 1]}}

\* C1: under the default rule and N >= 2 the objective's variables are
\* exactly buy_i for the odd i with 1 <= i < N: none for position 0, no sell_*
C1_DefaultVariables ==
  (Returned /\ rule = "default" /\ N >= 2) =>
    /\ DOMAIN bqm.linear = {fstring(BUY, i) : i \in OddPositions}
    /\ \A v \in DOMAIN bqm.linear :
         /\ ~contains(SELL, v)
         /\ split(v, "_")[2] # << "0" >>

C1_Witness ==
  /\ pc = "built" /\ rule = "default" /\ N = 14
  /\ Cardinality(DOMAIN bqm.linear) = 7
  /\ << "b", "u", "y", "_", "1", "3" >> \in DOMAIN bqm.linear

\* C2: for any rule, buy_i has linear bias -close[i] and sell_i has +close[i],
\* and every variable comes from one addition (one variable per eligible
\* kind and position, so nothing was accumulated)
C2_LinearBias ==
  Returned =>
    /\ \A i \in 0 .. (N - 1) :
         /\ fstring(BUY, i) \in DOMAIN bqm.linear
              => bqm.linear[fstring(BUY, i)] = 0 - df.Close[i + 1]
         /\ fstring(SELL, i) \in DOMAIN bqm.linear
              => bqm.linear[fstring(SELL, i)] = df.Close[i + 1]
    /\ DOMAIN bqm.linear = {fstring(p[1], p[2]) : p \in EligiblePairs}
    /\ Cardinality(DOMAIN bqm.linear) = Cardinality(EligiblePairs)
    /\ Len(bqm.variables) = Cardinality(EligiblePairs)

C2_Witness ==
  /\ pc = "built" /\ rule = "custom"
  /\ << "b", "u", "y", "_", "1" >> \in DOMAIN bqm.linear
  /\ << "s", "e", "l", "l", "_", "1" >> \in DOMAIN bqm.linear
  /\ bqm.linear[<< "s", "e", "l", "l", "_", "1" >>] = 896

\* C3: the pairwise terms are exactly {buy_i, sell_i}, weight 1.0, for the
\* i in 1..N-1 where both flags hold; none under the default rule
C3_Interactions ==
  Returned =>
    /\ DOMAIN bqm.quadratic =
         {{fstring(BUY, i), fstring(SELL, i)} :
            i \in {j \in 1 .. (N - 1) : signals.buy[j + 1] /\ signals.sell[j + 1]}}
    /\ \A e \in DOMAIN bqm.quadratic : bqm.quadratic[e] = 100
    /\ rule = "default" => DOMAIN bqm.quadratic = {}

C3_Witness ==
  /\ pc = "built"
  /\ signals.buy[1] /\ signals.sell[1]
  /\ DOMAIN bqm.quadratic =
       {{<< "b", "u", "y", "_", "1" >>, << "s", "e", "l", "l", "_", "1" >>}}

\* the (row, position) pairs of the response in which buy_position is 1
BuyHits ==
  LET buyKey == [i \in 0 .. (N - 1) |-> fstring(BUY, i)]
  IN  {h \in (1 .. Len(response)) \X (0 .. (N - 1)) :
         \E k \in 1 .. Len(response[h[1]]) :
           /\ response[h[1]][k].value = 1
           /\ response[h[1]][k].key = buyKey[h[2]]}

Count(list, p) == Cardinality({k \in 1 .. Len(list) : list[k] = p})

\* C4: the extracted list holds, as a multiset, close[i] once for every
\* (solution, buy_i) pair with buy_i assigned 1, and nothing else
C4_ExtractedMultiset ==
  Extracted =>
    LET hits == BuyHits
    IN  /\ Len(optimal_buy_prices) = Cardinality(hits)
        /\ \A p \in {df.Close[k] : k \in 1 .. N} :
             Count(optimal_buy_prices, p)
               = Cardinality({h \in hits : df.Close[h[2] + 1] = p})

C4_Witness ==
  /\ pc = "extracted"
  /\ Len(response) = 2
  /\ \E i \in 1 .. (N - 1) : {<< 1, i >>, << 2, i >>} \subseteq BuyHits
  /\ \E r \in 1 .. 2 : \E k \in 1 .. Len(response[r]) :
       contains(SELL, response[r][k].key) /\ response[r][k].value = 1
  /\ Len(optimal_buy_prices) = 2
  /\ optimal_buy_prices[1] = optimal_buy_prices[2]

\* the least close price at an odd position
MinOddClose ==
  CHOOSE p \in {df.Close[i + 1] : i \in OddPositions} :
    \A i \in OddPositions : p <= df.Close[i + 1]

\* the assignment a row of the response makes
RowAssignment(sample) ==
  [v \in {sample[k].key : k \in 1 .. Len(sample)} |->
     sample[CHOOSE k \in 1 .. Len(sample) : sample[k].key = v].value]

\* C5: with the exact solver, the default rule and N >= 2 the response is the
\* one minimum-energy assignment (every buy variable 1), the run does not
\* fail, and the best entry price is the least close price at an odd
\* position: 8.46 for the shipped table
C5_ExactBestEntry ==
  (solver = "exact" /\ rule = "default" /\ N >= 2) =>
    /\ pc # "failed"
    /\ pc \in {"solved", "extracted", "reported", "done"} =>
         /\ Len(response) = 1
         /\ \A k \in 1 .. Len(response[1]) : response[1][k].value = 1
         /\ {response[1][k].key : k \in 1 .. Len(response[1])}
              = {fstring(BUY, i) : i \in OddPositions}
         /\ pc = "solved" =>
              \A o \in Assignments(bqm) :
                Energy(bqm, RowAssignment(response[1])) <= Energy(bqm, o)
    /\ pc \in {"reported", "done"} =>
         /\ best_entry_price = MinOddClose
         /\ df.Close = ShippedClose =>
              best_entry_price = 846 /\ df.Close[3 + 1] = 846

C5_Witness ==
  /\ pc = "done" /\ solver = "exact" /\ rule = "default"
  /\ df.Close = ShippedClose
  /\ best_entry_price = 846

\* C6: a run whose extracted list is empty ends in the explicit error
\* "no optimal buy price found"
C6_EmptyResultError ==
  (pc = "failed" /\ error # SolverError /\ optimal_buy_prices = << >>) =>
    error = "no optimal buy price found"

\* C7: an objective without variables is never handed to the solver
C7_EmptyModelNotSolved ==
  (Built /\ DOMAIN bqm.linear = {}) => solver_calls = 0

\* C8: a failure of the solver call ends the run with that error: no
\* substitute response, no extraction, no best entry price, no export
C8_SolverFailureSurfaces ==
  error = SolverError =>
    /\ pc = "failed"
    /\ response = << >>
    /\ optimal_buy_prices = << >>
    /\ best_entry_price = 0
    /\ stdout = << >>
    /\ csv_writes = 0
    /\ file = file_at_start

C8_Witness ==
  /\ pc = "failed" /\ error = SolverError
  /\ solver_calls = 1
  /\ DOMAIN bqm.linear # {}
  /\ file = StaleFile

\* the file a completed run leaves: one header, N rows in series order with
\* the generator's flags
ExportMatches ==
  /\ file.exists
  /\ file.header = << "Date", "Close", "Buy_Signal", "Sell_Signal" >>
  /\ Len(file.rows) = N
  /\ \A i \in 0 .. (N - 1) :
       /\ file.rows[i + 1].Date = ShippedDate[i + 1]
       /\ file.rows[i + 1].Close = df.Close[i + 1]
       /\ file.rows[i + 1].Buy_Signal = signals.buy[i + 1]
       /\ file.rows[i + 1].Sell_Signal = signals.sell[i + 1]

\* C9: the file of a completed run has one header row and N data rows, one
\* per price point in order from position 0, with the generator's flags;
\* after signal generation no step changes the frame
C9_ExportRows ==
  /\ [](pc = "done" => ExportMatches)
  /\ [](pc # "signals" =>
          df.Buy_Signal = signals.buy /\ df.Sell_Signal = signals.sell)
  /\ [][(pc # "signals" => df' = df) /\ df'.Close = df.Close]_vars

C9_Witness ==
  /\ pc = "done" /\ N = 2
  /\ signals.buy[1] /\ signals.buy[2] /\ signals.sell[1] /\ ~signals.sell[2]
  /\ file.rows[1].Buy_Signal /\ file.rows[1].Sell_Signal
  /\ file.rows[2].Buy_Signal /\ ~file.rows[2].Sell_Signal

Printed(tag) == {k \in 1 .. Len(stdout) : stdout[k][1] = tag}

\* C10: the file is written at most once and only after the best entry price
\* was computed and printed; a failed run leaves the file as it was, and a
\* run failing on the empty list has printed the list and no best price
C10_ExportLast ==
  /\ csv_writes <= 1
  /\ csv_writes = 0 => file = file_at_start
  /\ csv_writes = 1 =>
       /\ \E k \in 1 .. Len(optimal_buy_prices) :
            best_entry_price = optimal_buy_prices[k]
       /\ \E k \in Printed("The optimal entry price to buy is") :
            stdout[k][2] = << best_entry_price >>
       /\ file = to_csv(df)
  /\ pc = "failed" =>
       /\ csv_writes = 0
       /\ file = file_at_start
       /\ Printed("The optimal entry price to buy is") = {}
       /\ error = ValueError =>
            stdout = << << "Optimal Buy Prices", << >> >> >>

C10_Witness ==
  /\ pc = "failed" /\ error = ValueError
  /\ file = StaleFile
  /\ Len(response) = 2
  /\ stdout = << << "Optimal Buy Prices", << >> >> >>

====
